---------------------------- MODULE Spec2Model ----------------------------
(***************************************************************************)
(* A model of the text-to-record pipeline of src/app.py: the text cleaner  *)
(* (extract_structured_content / format_structured_response), the record   *)
(* parser (parse_paper_data), the list classifier (is_paper_list_response) *)
(* and the two presenters (format_structured_paper_list,                   *)
(* create_papers_dataframe).                                               *)
(*                                                                         *)
(* A Python str is a sequence of characters; a character is a one-letter   *)
(* string, except the few that are written by name: NL (newline), BS       *)
(* (backslash), QT (double quote), TAB, and G1 G2 G3, the three characters *)
(* U+00E2 U+20AC U+00A2 of the bullet literal of lines 36, 50 and 66.      *)
(* A Python dict is a function whose DOMAIN is the set of its keys.        *)
(***************************************************************************)
EXTENDS Naturals, Sequences, FiniteSets, TLC

VARIABLES
    text,           \* response_text: what the orchestrator hands to the core
    pc,             \* where the orchestrator (lines 376-393) stands
    idx,            \* parse_paper_data: index into lines of the line read next
    papers,         \* parse_paper_data: papers
    current_paper,  \* parse_paper_data: current_paper
    is_list,        \* result of is_paper_list_response(text)
    report,         \* result of format_structured_paper_list(papers)
    table,          \* result of create_papers_dataframe(papers) (df_data)
    outs            \* outputs of the successive passes of the text cleaner

vars == <<text, pc, idx, papers, current_paper, is_list, report, table, outs>>

---------------------------------------------------------------------------
(* Characters and the str methods the code uses.                           *)

NL == "NL"
BS == "BS"
QT == "QT"
TAB == "TAB"

\* str.strip() / str.lstrip() without argument, and \s of re
Whitespace == {" ", TAB, NL}

\* \d of re
Digits == {"0", "1", "2", "3", "4", "5", "6", "7", "8", "9"}

LOWER == <<"a","b","c","d","e","f","g","h","i","j","k","l","m",
           "n","o","p","q","r","s","t","u","v","w","x","y","z">>

UPPER == <<"A","B","C","D","E","F","G","H","I","J","K","L","M",
           "N","O","P","Q","R","S","T","U","V","W","X","Y","Z">>

\* [A-Za-z] of re
Letters == {LOWER[i] : i \in 1..26} \cup {UPPER[i] : i \in 1..26}

\* \w of re (str patterns: Unicode word characters; U+00E2 is a letter)
WordChars == Letters \cup Digits \cup {"_", "G1"}

\* [\w\-/\.] of the URL pattern
UrlChars == WordChars \cup {"-", "/", "."}

\* str.lower() on one character, also the case folding of re.IGNORECASE
Lower(c) ==
    IF \E i \in 1..26 : UPPER[i] = c
    THEN LOWER[CHOOSE i \in 1..26 : UPPER[i] = c]
    ELSE c

LowerStr(s) == [i \in 1..Len(s) |-> Lower(s[i])]

\* s[n:]
Drop(s, n) == SubSeq(s, n + 1, Len(s))

\* s[:n]
Take(s, n) == SubSeq(s, 1, n)

\* the number of leading characters of s that are in C
LeadCount(s, C) ==
    IF \A i \in 1..Len(s) : s[i] \in C
    THEN Len(s)
    ELSE (CHOOSE i \in 1..Len(s) :
              s[i] \notin C /\ \A j \in 1..(i - 1) : s[j] \in C) - 1

\* the number of trailing characters of s that are in C
TrailCount(s, C) ==
    IF \A i \in 1..Len(s) : s[i] \in C
    THEN Len(s)
    ELSE Len(s) - (CHOOSE i \in 1..Len(s) :
              s[i] \notin C /\ \A j \in (i + 1)..Len(s) : s[j] \in C)

\* str.lstrip(chars)
LStripChars(s, C) == Drop(s, LeadCount(s, C))

\* str.rstrip(chars)
RStripChars(s, C) == Take(s, Len(s) - TrailCount(s, C))

\* str.strip(chars)
StripChars(s, C) == RStripChars(LStripChars(s, C), C)

\* str.strip()
Strip(s) == StripChars(s, Whitespace)

\* p occurs in s at position i
MatchAt(s, i, p) ==
    /\ i >= 1
    /\ i + Len(p) - 1 <= Len(s)
    /\ \A k \in 1..Len(p) : s[i + k - 1] = p[k]

\* the same under re.IGNORECASE (p is given in lower case)
MatchAtCI(s, i, p) ==
    /\ i >= 1
    /\ i + Len(p) - 1 <= Len(s)
    /\ \A k \in 1..Len(p) : Lower(s[i + k - 1]) = p[k]

\* str.startswith / str.endswith / `in`
StartsWith(s, p) == MatchAt(s, 1, p)

EndsWith(s, p) == MatchAt(s, Len(s) - Len(p) + 1, p)

Contains(s, p) == \E i \in 1..Len(s) : MatchAt(s, i, p)

\* str.index(p) + 1 (the first position where p occurs), 0 when there is none
Find(s, p) ==
    IF Contains(s, p)
    THEN CHOOSE i \in 1..Len(s) :
             MatchAt(s, i, p) /\ \A j \in 1..(i - 1) : ~MatchAt(s, j, p)
    ELSE 0

\* str.split('\n')
RECURSIVE Split(_)
Split(s) ==
    LET i == Find(s, <<NL>>)
    IN IF i = 0 THEN <<s>> ELSE <<Take(s, i - 1)>> \o Split(Drop(s, i))

\* '\n'.join(ls)
RECURSIVE Join(_)
Join(ls) ==
    IF Len(ls) = 0 THEN <<>>
    ELSE IF Len(ls) = 1 THEN ls[1]
    ELSE ls[1] \o <<NL>> \o Join(Tail(ls))

\* str.replace(old, new): left to right, non-overlapping
RECURSIVE Replace(_, _, _)
Replace(s, old, new) ==
    LET i == Find(s, old)
    IN IF i = 0 THEN s
       ELSE Take(s, i - 1) \o new \o Replace(Drop(s, i + Len(old) - 1), old, new)

\* a failed re match, and a match with the group the code reads
NoMatch == [m |-> FALSE, g |-> <<>>]

Matched(group) == [m |-> TRUE, g |-> group]

---------------------------------------------------------------------------
(* The title patterns of parse_paper_data (lines 82-89). re.match anchors  *)
(* each at the start of the stripped line.                                 *)

\* :?\s*(.*) after a label: the group
ColonSpaceRest(r) ==
    LStripChars(IF StartsWith(r, <<":">>) THEN Drop(r, 1) ELSE r, Whitespace)

\* \.\s* after the n leading digits of line
NumberedPrefixAt(line, n) ==
    IF n >= 1 /\ Len(line) >= n + 1 /\ line[n + 1] = "."
    THEN Matched(LStripChars(Drop(line, n + 1), Whitespace))
    ELSE NoMatch

\* ^\d+\.\s*  the numbered prefix shared by the first five patterns: the
\* line with the prefix consumed, or NoMatch
NumberedPrefix(line) == NumberedPrefixAt(line, LeadCount(line, Digits))

BoldTitleLabel == <<"*","*","t","i","t","l","e","*","*">>

\* \*\*Title\*\*:?\s*(.*) after the numbered prefix p
Pattern1After(p) ==
    IF p.m /\ MatchAtCI(p.g, 1, BoldTitleLabel)
    THEN Matched(ColonSpaceRest(Drop(p.g, Len(BoldTitleLabel))))
    ELSE NoMatch

\* ^\d+\.\s*\*\*Title\*\*:?\s*(.*)   re.IGNORECASE
TitlePattern1(line) == Pattern1After(NumberedPrefix(line))

\* (.*?)<close>: the lazy group ends at j, the first <close> of r
DelimitedEnd(r, j) == IF j > 0 THEN Matched(Take(r, j - 1)) ELSE NoMatch

\* <open>(.*?)<close> after the numbered prefix p
DelimitedAfter(p, open, close) ==
    IF p.m /\ StartsWith(p.g, open)
    THEN DelimitedEnd(Drop(p.g, Len(open)), Find(Drop(p.g, Len(open)), close))
    ELSE NoMatch

\* ^\d+\.\s*<open>(.*?)<close>
Delimited(line, open, close) ==
    DelimitedAfter(NumberedPrefix(line), open, close)

\* ^\d+\.\s*\*\*(.*?)\*\*
TitlePattern2(line) == Delimited(line, <<"*", "*">>, <<"*", "*">>)

\* ^\d+\.\s*__(.*?)__
TitlePattern3(line) == Delimited(line, <<"_", "_">>, <<"_", "_">>)

\* ^\d+\.\s*\*(.*?)\*
TitlePattern4(line) == Delimited(line, <<"*">>, <<"*">>)

\* ^\d+\.\s*(.*?)$
TitlePattern5(line) == NumberedPrefix(line)

\* [ \t]*(.+) on r2, which is r without the colon :? took, w the number of
\* leading blanks of r2: the greedy blanks and colon are given back, last
\* taken first, until one character is left for (.+)
BlanksRest(r, r2, w) ==
    IF Len(r2) > w THEN Matched(Drop(r2, w))
    ELSE IF w > 0 THEN Matched(Drop(r2, w - 1))
    ELSE IF Len(r) > Len(r2) THEN Matched(r)
    ELSE NoMatch

ColonRest(r, r2) == BlanksRest(r, r2, LeadCount(r2, {" ", TAB}))

\* :?[ \t]*(.+) after the label of pattern 6
ColonBlanksRest(r) ==
    ColonRest(r, IF StartsWith(r, <<":">>) THEN Drop(r, 1) ELSE r)

PlainTitleLabel == <<"t","i","t","l","e">>

\* ^Title:?[ \t]*(.+)   re.IGNORECASE
TitlePattern6(line) ==
    IF MatchAtCI(line, 1, PlainTitleLabel)
    THEN ColonBlanksRest(Drop(line, Len(PlainTitleLabel)))
    ELSE NoMatch

\* title_patterns, in the order of the list
title_patterns(line) ==
    <<TitlePattern1(line), TitlePattern2(line), TitlePattern3(line),
      TitlePattern4(line), TitlePattern5(line), TitlePattern6(line)>>

\* the first match of a sequence of match results
FirstMatch(ms) ==
    IF \E i \in 1..Len(ms) : ms[i].m
    THEN ms[CHOOSE i \in 1..Len(ms) :
                ms[i].m /\ \A j \in 1..(i - 1) : ~ms[j].m]
    ELSE NoMatch

\* for pat in title_patterns: m = pat.match(line); if m: ... break
TitleMatch(line) == FirstMatch(title_patterns(line))

\* re.match(r'\[(.*?)\]\([^\)]+\)', s): the lazy group ends at the first
\* "](" that is followed by one or more non-")" characters and a ")"
LinkClose(s, j) ==
    /\ MatchAt(s, j, <<"]", "(">>)
    /\ j + 2 <= Len(s)
    /\ s[j + 2] # ")"
    /\ \E k \in (j + 3)..Len(s) : s[k] = ")"

extract_markdown_link_text(s) ==
    IF StartsWith(s, <<"[">>) /\ \E j \in 2..Len(s) : LinkClose(s, j)
    THEN Strip(SubSeq(s, 2,
             (CHOOSE j \in 2..Len(s) :
                  LinkClose(s, j) /\ \A i \in 2..(j - 1) : ~LinkClose(s, i)) - 1))
    ELSE Strip(s)

UnknownTitle == <<"U","n","k","n","o","w","n"," ","T","i","t","l","e">>

\* line 112: title_val if title_val else 'Unknown Title'
OrUnknownTitle(title_val) ==
    IF title_val # <<>> THEN title_val ELSE UnknownTitle

\* lines 109-112: the title of the record a matched title line opens
TitleValue(group) == OrUnknownTitle(extract_markdown_link_text(Strip(group)))

---------------------------------------------------------------------------
(* The field patterns of parse_paper_data (lines 124-149). re.search       *)
(* takes the leftmost position where the pattern matches.                  *)

\* the leftmost of a set of positions, 0 when there is none
Leftmost(P) ==
    IF P = {} THEN 0 ELSE CHOOSE i \in P : \A j \in P : i <= j

AuthorLabel == <<"a","u","t","h","o","r">>

\* s? after the label
OptionalS(r) == IF MatchAtCI(r, 1, <<"s">>) THEN Drop(r, 1) ELSE r

\* the match that starts at position i of line
AuthorsFrom(line, i) ==
    IF i = 0 THEN NoMatch
    ELSE Matched(ColonSpaceRest(OptionalS(Drop(line, i + Len(AuthorLabel) - 1))))

\* re.search(r'Authors?:?\s*(.*)', line, re.IGNORECASE)
authors_match(line) ==
    AuthorsFrom(line,
        Leftmost({k \in 1..Len(line) : MatchAtCI(line, k, AuthorLabel)}))

\* ([A-Za-z]+ \d{1,2}, \d{4}) at the start of r, with a letters and then,
\* after a blank, d digits: the length matched, 0 when it does not match
DateLenAt(r, a, d) ==
    IF /\ a >= 1
       /\ MatchAt(r, a + 1, <<" ">>)
       /\ d \in {1, 2}
       /\ MatchAt(r, a + 2 + d, <<",", " ">>)
       /\ LeadCount(Drop(r, a + d + 3), Digits) >= 4
    THEN a + d + 7
    ELSE 0

DateLenAfter(r, a) == DateLenAt(r, a, LeadCount(Drop(r, a + 1), Digits))

DateLen(r) == DateLenAfter(r, LeadCount(r, Letters))

PublishedLabel == <<"P","u","b","l","i","s","h","e","d">>

\* what follows Published:?\s* when the label is at position k of line
PublishedRest(line, k) ==
    ColonSpaceRest(Drop(line, k + Len(PublishedLabel) - 1))

PublishedGroup(r) == Matched(Take(r, DateLen(r)))

PublishedFrom(line, i) ==
    IF i = 0 THEN NoMatch ELSE PublishedGroup(PublishedRest(line, i))

\* re.search(r'Published:?\s*([A-Za-z]+ \d{1,2}, \d{4})', line)
published_match(line) ==
    PublishedFrom(line,
        Leftmost({k \in 1..Len(line) :
                     /\ MatchAt(line, k, PublishedLabel)
                     /\ DateLen(PublishedRest(line, k)) > 0}))

SummaryWord == <<"s","u","m","m","a","r","y">>

AbstractWord == <<"a","b","s","t","r","a","c","t">>

\* (Summary|Abstract) at position i of line
SummaryAt(line, i) ==
    MatchAtCI(line, i, SummaryWord) \/ MatchAtCI(line, i, AbstractWord)

SummaryFrom(line, i) ==
    IF i = 0 THEN NoMatch
    ELSE Matched(ColonSpaceRest(Drop(line,
             i - 1 + (IF MatchAtCI(line, i, SummaryWord)
                      THEN Len(SummaryWord) ELSE Len(AbstractWord)))))

\* re.search(r'(Summary|Abstract):?\s*(.*)', line, re.IGNORECASE): group 2
summary_match(line) ==
    SummaryFrom(line, Leftmost({k \in 1..Len(line) : SummaryAt(line, k)}))

Http == <<"h","t","t","p">>

ArxivHost == <<":","/","/","a","r","x","i","v",".","o","r","g","/">>

\* ://arxiv\.org/[\w\-/\.]+ after http and the s characters s? took: the
\* length of the whole match, 0 when it does not match
UrlLenWith(r, s) ==
    IF /\ MatchAt(r, s + 1, ArxivHost)
       /\ LeadCount(Drop(r, s + Len(ArxivHost)), UrlChars) >= 1
    THEN Len(Http) + s + Len(ArxivHost)
         + LeadCount(Drop(r, s + Len(ArxivHost)), UrlChars)
    ELSE 0

\* s?://arxiv\.org/[\w\-/\.]+ after http
UrlLenAfterHttp(r) ==
    UrlLenWith(r, IF StartsWith(r, <<"s">>) /\ MatchAt(r, 2, ArxivHost)
                  THEN 1 ELSE 0)

\* https?://arxiv\.org/[\w\-/\.]+ at position i of line: the length matched,
\* 0 when it does not match
UrlLen(line, i) ==
    IF MatchAt(line, i, Http)
    THEN UrlLenAfterHttp(Drop(line, i - 1 + Len(Http)))
    ELSE 0

UrlFrom(line, i) ==
    IF i = 0 THEN NoMatch
    ELSE Matched(SubSeq(line, i, i + UrlLen(line, i) - 1))

\* re.search(r'(https?://arxiv\.org/[\w\-/\.]+)', line)
url_match(line) ==
    UrlFrom(line, Leftmost({k \in 1..Len(line) : UrlLen(line, k) > 0}))

\* .strip().lstrip(':').lstrip('*').strip() of lines 127, 134 and 141
FieldValue(group) ==
    Strip(LStripChars(LStripChars(Strip(group), {":"}), {"*"}))

---------------------------------------------------------------------------
(* Python dicts and None.                                                  *)

None == [None |-> TRUE]

\* `x is not None`
IsNotNone(x) == x # None

\* {}
EmptyDict == << >>

\* the truth value of a dict: it has a key
Truthy(d) == DOMAIN d # {}

\* d[k] = v
DictSet(d, k, v) == [x \in DOMAIN d \cup {k} |-> IF x = k THEN v ELSE d[x]]

\* d.get(k, default)
DictGet(d, k, default) == IF k \in DOMAIN d THEN d[k] ELSE default

---------------------------------------------------------------------------
(* parse_paper_data (lines 75-155). The state of its loop is the pair      *)
(* papers, current_paper.                                                  *)

\* lines 111-118: the dict a title line opens
NewPaper(title_val) ==
    [title |-> title_val, categories |-> <<>>, url |-> <<>>,
     summary |-> <<>>, authors |-> <<>>, published |-> <<>>]

\* a loop body that tests the summary pattern before the authors pattern:
\* not the order of the code, and C8 tells the two apart
BranchOfSummaryFirst(line, cp) ==
    IF line = <<>> THEN "blank"
    ELSE IF TitleMatch(line).m THEN "title"
    ELSE IF summary_match(line).m /\ IsNotNone(cp) THEN "summary"
    ELSE IF authors_match(line).m /\ IsNotNone(cp) THEN "authors"
    ELSE IF published_match(line).m /\ IsNotNone(cp) THEN "published"
    ELSE IF url_match(line).m /\ IsNotNone(cp) THEN "url"
    ELSE "none"

\* which branch of the loop body (lines 98-149) a stripped line takes, given
\* current_paper
BranchOf(line, cp) ==
    IF line = <<>> THEN "blank"
    ELSE IF TitleMatch(line).m THEN "title"
    ELSE IF authors_match(line).m /\ IsNotNone(cp) THEN "authors"
    ELSE IF published_match(line).m /\ IsNotNone(cp) THEN "published"
    ELSE IF summary_match(line).m /\ IsNotNone(cp) THEN "summary"
    ELSE IF url_match(line).m /\ IsNotNone(cp) THEN "url"
    ELSE "none"

\* the same for the raw line (line 97 strips it)
Branch(raw, cp) == BranchOf(Strip(raw), cp)

\* lines 105-120: a title line saves the previous paper, if it is a
\* non-empty dict, and opens a new one
OpenPaper(st, line) ==
    [papers |-> IF Truthy(st.current_paper)
                THEN Append(st.papers, st.current_paper) ELSE st.papers,
     current_paper |-> NewPaper(TitleValue(TitleMatch(line).g))]

\* current_paper[key] = val
SetField(st, key, val) ==
    [papers |-> st.papers,
     current_paper |-> DictSet(st.current_paper, key, val)]

\* the loop body (lines 98-149) on the stripped line, which takes branch b
Dispatch(st, line, b) ==
    CASE b = "title" -> OpenPaper(st, line)
      [] b = "authors" ->
             SetField(st, "authors", FieldValue(authors_match(line).g))
      [] b = "published" ->
             SetField(st, "published", FieldValue(published_match(line).g))
      [] b = "summary" ->
             SetField(st, "summary", FieldValue(summary_match(line).g))
      [] b = "url" -> SetField(st, "url", url_match(line).g)
      [] OTHER -> st

\* one pass of the loop body (lines 96-149)
ParseLine(st, raw) == Dispatch(st, Strip(raw), Branch(raw, st.current_paper))

\* lines 151-155: the last paper is added, if it is a non-empty dict
LastPaper(st) ==
    IF Truthy(st.current_paper)
    THEN Append(st.papers, st.current_paper) ELSE st.papers

RECURSIVE ParseLines(_, _)
ParseLines(st, ls) ==
    IF ls = <<>> THEN st ELSE ParseLines(ParseLine(st, Head(ls)), Tail(ls))

parse_paper_data(text_response) ==
    LastPaper(ParseLines([papers |-> <<>>, current_paper |-> EmptyDict],
                         Split(text_response)))

---------------------------------------------------------------------------
(* is_paper_list_response (lines 234-242).                                 *)

\* re.match(r'^\d+\. ', line)
NumberedLine(line) ==
    /\ LeadCount(line, Digits) >= 1
    /\ MatchAt(line, LeadCount(line, Digits) + 1, <<".", " ">>)

\* lines 240-241: the numbered lines among ls
RECURSIVE NumberedAmong(_)
NumberedAmong(ls) ==
    IF ls = <<>> THEN <<>>
    ELSE (IF NumberedLine(Head(ls)) THEN <<Head(ls)>> ELSE <<>>)
         \o NumberedAmong(Tail(ls))

\* lines 240-241: the numbered lines of the stripped raw text
numbered_lines(response_text) == NumberedAmong(Split(Strip(response_text)))

\* the number of parsed papers and of numbered lines that make a list
MinPapers == 2

\* a test that takes one numbered line for a list: not the test of the
\* code, and C10 tells the two apart
PaperListTestAnyNumbered(parsed, response_text) ==
    \/ Len(parsed) >= MinPapers
    \/ Len(numbered_lines(response_text)) >= 1

\* lines 237-242, given the papers line 236 parsed
PaperListTest(parsed, response_text) ==
    \/ Len(parsed) >= MinPapers
    \/ Len(numbered_lines(response_text)) >= MinPapers

is_paper_list_response(response_text) ==
    PaperListTest(parse_paper_data(response_text), response_text)

---------------------------------------------------------------------------
(* format_structured_paper_list (lines 157-189).                           *)

\* .strip(':').strip('*').strip() of lines 164, 168, 173 and 178
TrimField(v) == Strip(StripChars(StripChars(v, {":"}), {"*"}))

TitleLabel == <<"*","*","T","i","t","l","e",":","*","*"," ">>

AuthorsLabel == <<"*","*","A","u","t","h","o","r","s",":","*","*"," ">>

PublishedFieldLabel == <<"*","*","P","u","b","l","i","s","h","e","d",":","*","*"," ">>

SummaryLabel == <<"*","*","S","u","m","m","a","r","y",":","*","*"," ">>

PdfLinkLabel == <<"*","*","P","D","F"," ","L","i","n","k",":","*","*"," ">>

Divider == <<"-", "-", "-">>

\* a labelled line followed by an empty line, or nothing for an empty value
Labelled(label, val) ==
    IF val # <<>> THEN <<label \o val, <<>>>> ELSE << >>

\* lines 163-188: the lines one paper adds to output
PaperBlock(paper) ==
    <<TitleLabel \o TrimField(DictGet(paper, "title", UnknownTitle)), <<>>>>
    \o Labelled(AuthorsLabel, TrimField(DictGet(paper, "authors", <<>>)))
    \o Labelled(PublishedFieldLabel,
                TrimField(DictGet(paper, "published", <<>>)))
    \o Labelled(SummaryLabel, TrimField(DictGet(paper, "summary", <<>>)))
    \o Labelled(PdfLinkLabel, Strip(DictGet(paper, "url", <<>>)))
    \o <<Divider>>

RECURSIVE ReportLines(_)
ReportLines(ps) ==
    IF ps = <<>> THEN <<>> ELSE PaperBlock(Head(ps)) \o ReportLines(Tail(ps))

NoPapersFound == <<"N","o"," ","p","a","p","e","r","s"," ","f","o","u","n","d"," ","i","n"," ","t","h","e"," ","e","x","p","e","c","t","e","d"," ","f","o","r","m","a","t",".">>

format_structured_paper_list(ps) ==
    IF ps = <<>> THEN NoPapersFound ELSE Join(ReportLines(ps))

---------------------------------------------------------------------------
(* create_papers_dataframe (lines 214-232): the rows of the DataFrame.     *)

NotAvailable == <<"N", "/", "A">>

\* lines 223-224: the text of a title in markdown link form
LinkText(title) ==
    IF /\ StartsWith(title, <<"[">>)
       /\ Contains(title, <<"]", "(">>)
       /\ EndsWith(title, <<")">>)
    THEN SubSeq(title, 2, Find(title, <<"]", "(">>) - 1)
    ELSE title

\* lines 226-227
NotTheLabel(title) ==
    IF LowerStr(Strip(title)) = <<"t","i","t","l","e">> THEN UnknownTitle ELSE title

\* lines 221-227
RowTitle(paper) ==
    NotTheLabel(LinkText(DictGet(paper, "title", <<"U","n","k","n","o","w","n">>)))

\* line 230
RowUrl(paper) == DictGet(paper, "url", NotAvailable)

\* lines 219-232 (for a non-empty list of papers)
create_papers_dataframe(ps) ==
    [i \in 1..Len(ps) |-> [Title |-> RowTitle(ps[i]), URL |-> RowUrl(ps[i])]]

---------------------------------------------------------------------------
(* The text cleaner: extract_structured_content from line 31 on, and       *)
(* format_structured_response (lines 47-73).                               *)

\* the bullet literal of lines 36, 50 and 66: three characters
Bullet == <<"G1", "G2", "G3">>

\* a line format that makes a heading of every line that ends with a double
\* asterisk: not the format of the code, and C6 tells the two apart
FormatStrippedTrailingBold(line) ==
    IF line = <<>> THEN <<>>
    ELSE IF EndsWith(line, <<"*", "*">>)
    THEN <<"#", "#", "#", " ">> \o line
    ELSE IF StartsWith(line, <<"*">>) /\ ~StartsWith(line, <<"*", "*">>)
    THEN <<"-", " ">> \o Strip(Drop(line, 1))
    ELSE IF StartsWith(line, Bullet)
    THEN <<"-", " ">> \o Strip(Drop(line, 1))
    ELSE line

\* lines 56-69: one stripped line of a reformatted text
FormatStripped(line) ==
    IF line = <<>> THEN <<>>
    ELSE IF StartsWith(line, <<"*", "*">>) /\ EndsWith(line, <<"*", "*">>)
    THEN <<"#", "#", "#", " ">> \o line
    ELSE IF StartsWith(line, <<"*">>) /\ ~StartsWith(line, <<"*", "*">>)
    THEN <<"-", " ">> \o Strip(Drop(line, 1))
    ELSE IF StartsWith(line, Bullet)
    THEN <<"-", " ">> \o Strip(Drop(line, 1))
    ELSE line

\* lines 54-69: one line of a reformatted text
FormatLine(raw) == FormatStripped(Strip(raw))

\* a gate that asks for the bullet literal next to the double asterisk: not
\* the gate of the code, and C5 tells the two apart
HasHeaderAndBulletGlyph(t) ==
    Contains(t, <<"*", "*">>) /\ Contains(t, Bullet)

\* line 50
HasHeaderAndBullet(t) ==
    Contains(t, <<"*", "*">>) /\ (Contains(t, <<"*">>) \/ Contains(t, Bullet))

\* lines 51-71
FormatLines(ls) == Join([i \in 1..Len(ls) |-> FormatLine(ls[i])])

format_structured_response(t) ==
    IF HasHeaderAndBullet(t) THEN FormatLines(Split(t)) ELSE t

\* line 36: the markers of a structured response
Markers ==
    {<<"*", "*">>, <<"*">>, Bullet, <<"-", " ">>,
     <<"K","e","y"," ","f","i","n","d","i","n","g","s",":">>,
     <<"A","b","s","t","r","a","c","t",":">>,
     <<"S","u","m","m","a","r","y",":">>}

\* line 33
Unescape(t) == Replace(Replace(t, <<BS, "n">>, <<NL>>), <<BS, QT>>, <<QT>>)

\* lines 36-39
FormatIfStructured(t) ==
    IF \E marker \in Markers : Contains(t, marker)
    THEN format_structured_response(t)
    ELSE t

\* lines 33-39, for a non-empty text_response
clean(text_response) == FormatIfStructured(Unescape(text_response))

---------------------------------------------------------------------------
(* The inputs.                                                             *)

\* the most lines of a response text
MaxLines == 2

\* the most fragments of a text handed to the cleaner
MaxFrags == 4

\* the most passes of the cleaner over one text
MaxPasses == 2

\* the lines response texts are made of
InputLines ==
    <<
      \* a blank line: ''
      <<>>,
      \* title pattern 1: '1. **Title**: A'
      <<"1","."," ","*","*","T","i","t","l","e","*","*",":"," ","A">>,
      \* title pattern 2: '2. **B**'
      <<"2","."," ","*","*","B","*","*">>,
      \* title pattern 3: '3. __C__'
      <<"3","."," ","_","_","C","_","_">>,
      \* title pattern 4: '4. *D*'
      <<"4","."," ","*","D","*">>,
      \* title pattern 5, indented, a markdown link: ' 5. [E](http://arxiv.org/e)'
      <<" ","5","."," ","[","E","]","(","h","t","t","p",":","/","/","a","r","x","i","v",".","o","r","g","/","e",")">>,
      \* title pattern 5 with nothing after the number: '6.'
      <<"6",".">>,
      \* title pattern 6: 'Title: * *x'
      <<"T","i","t","l","e",":"," ","*"," ","*","x">>,
      \* the label of pattern 6 and a colon, no text: 'Title: '
      <<"T","i","t","l","e",":"," ">>,
      \* the bare label: no pattern matches: 'Title'
      <<"T","i","t","l","e">>,
      \* authors: 'Authors: X'
      <<"A","u","t","h","o","r","s",":"," ","X">>,
      \* authors and summary: 'Summary: Author Y'
      <<"S","u","m","m","a","r","y",":"," ","A","u","t","h","o","r"," ","Y">>,
      \* published: 'Published: May 1, 2024'
      <<"P","u","b","l","i","s","h","e","d",":"," ","M","a","y"," ","1",","," ","2","0","2","4">>,
      \* authors and published: 'Published: May 2, 2024 Author Z'
      <<"P","u","b","l","i","s","h","e","d",":"," ","M","a","y"," ","2",","," ","2","0","2","4"," ","A","u","t","h","o","r"," ","Z">>,
      \* summary and URL: 'Abstract: http://arxiv.org/b'
      <<"A","b","s","t","r","a","c","t",":"," ","h","t","t","p",":","/","/","a","r","x","i","v",".","o","r","g","/","b">>,
      \* URL: 'http://arxiv.org/c'
      <<"h","t","t","p",":","/","/","a","r","x","i","v",".","o","r","g","/","c">>
    >>

\* all sequences of 1..n elements of the sequence pool
RECURSIVE SeqsUpTo(_, _)
SeqsUpTo(pool, n) ==
    IF n = 0 THEN {<< >>}
    ELSE LET shorter == SeqsUpTo(pool, n - 1)
         IN shorter \cup {Append(s, pool[i]) : s \in shorter, i \in 1..Len(pool)}

\* the response texts: 1..MaxLines input lines joined by newlines
Texts == {Join(ls) : ls \in SeqsUpTo(InputLines, MaxLines) \ {<< >>}}

\* the fragments texts handed to the cleaner are made of
CleanFrags ==
    << <<"*">>, <<"*", "*">>, <<"a">>, <<" ">>, <<NL>>, <<BS>>, <<"n">>,
       <<QT>>, <<"-">>, Bullet >>

RECURSIVE Concat(_)
Concat(ss) == IF ss = <<>> THEN <<>> ELSE Head(ss) \o Concat(Tail(ss))

\* the non-empty texts of 1..MaxFrags fragments
CleanTexts == {Concat(fs) : fs \in SeqsUpTo(CleanFrags, MaxFrags) \ {<< >>}}

---------------------------------------------------------------------------
(* The orchestrator (lines 376-393): is_paper_list_response(response),     *)
(* whose call of parse_paper_data (line 236) is run line by line, then     *)
(* parse_paper_data, format_structured_paper_list and                      *)
(* create_papers_dataframe on a response that is a paper list.             *)

\* parse_paper_data: lines (line 78)
lines == Split(text)

Init ==
    /\ text \in Texts
    /\ pc = "parse"
    /\ idx = 1
    /\ papers = << >>
    /\ current_paper = EmptyDict
    /\ is_list = FALSE
    /\ report = << >>
    /\ table = << >>
    /\ outs = << >>

\* the loop of parse_paper_data goes on from the state st
LoopTo(st) ==
    /\ papers' = st.papers
    /\ current_paper' = st.current_paper

\* one pass of the loop of parse_paper_data (lines 96-149)
ParseLoopBody ==
    /\ pc = "parse"
    /\ idx <= Len(lines)
    /\ LoopTo(ParseLine([papers |-> papers, current_paper |-> current_paper],
                        lines[idx]))
    /\ idx' = idx + 1
    /\ UNCHANGED <<text, pc, is_list, report, table, outs>>

\* lines 151-155: the loop is over
ParseReturn ==
    /\ pc = "parse"
    /\ idx > Len(lines)
    /\ papers' = LastPaper([papers |-> papers, current_paper |-> current_paper])
    /\ pc' = "classify"
    /\ UNCHANGED <<text, idx, current_paper, is_list, report, table, outs>>

\* lines 237-242, and the branch of line 376
IsPaperListResponse ==
    /\ pc = "classify"
    /\ is_list' = PaperListTest(papers, text)
    /\ pc' = IF is_list' THEN "format" ELSE "done"
    /\ UNCHANGED <<text, idx, papers, current_paper, report, table, outs>>

\* lines 378-380, given the papers line 377 parsed
ShowReport(parsed) ==
    IF parsed # << >>
    THEN report' = format_structured_paper_list(parsed) /\ pc' = "table"
    ELSE report' = report /\ pc' = "done"

\* lines 377-380
FormatStructuredPaperList ==
    /\ pc = "format"
    /\ ShowReport(parse_paper_data(text))
    /\ UNCHANGED <<text, idx, papers, current_paper, is_list, table, outs>>

\* line 381
CreatePapersDataframe ==
    /\ pc = "table"
    /\ table' = create_papers_dataframe(parse_paper_data(text))
    /\ pc' = "done"
    /\ UNCHANGED <<text, idx, papers, current_paper, is_list, report, outs>>

Next ==
    \/ ParseLoopBody
    \/ ParseReturn
    \/ IsPaperListResponse
    \/ FormatStructuredPaperList
    \/ CreatePapersDataframe

Spec == Init /\ [][Next]_vars

---------------------------------------------------------------------------
(* The text cleaner applied to a text, and again to what it returned.      *)

InitClean ==
    /\ text \in CleanTexts
    /\ pc = "clean"
    /\ idx = 1
    /\ papers = << >>
    /\ current_paper = EmptyDict
    /\ is_list = FALSE
    /\ report = << >>
    /\ table = << >>
    /\ outs = << >>

\* extract_structured_content on the text, or on the text it last returned
ExtractStructuredContent ==
    /\ pc = "clean"
    /\ Len(outs) < MaxPasses
    /\ outs' = Append(outs, clean(IF outs = << >> THEN text ELSE outs[Len(outs)]))
    /\ UNCHANGED <<text, pc, idx, papers, current_paper, is_list, report, table>>

NextClean == ExtractStructuredContent

SpecClean == InitClean /\ [][NextClean]_vars

---------------------------------------------------------------------------
(* The claims. A claim about parse_paper_data is read off papers once the  *)
(* loop has returned (pc # "parse"); lines are the lines of the text.      *)

\* a non-blank line that matches one of the six title patterns
IsTitleLine(raw) == Strip(raw) # <<>> /\ TitleMatch(Strip(raw)).m

TitleLineIndexes(ls) == {i \in 1..Len(ls) : IsTitleLine(ls[i])}

\* C1 (as claimed): parse_paper_data returns exactly as many records as the
\* text has non-blank lines that match a title pattern; lines that match no
\* title pattern never create a record.
C1_BoundaryCount ==
    pc # "parse" => Len(papers) = Cardinality(TitleLineIndexes(lines))

\* C2 (as claimed): every record parse_paper_data returns has a title, and
\* the title is a non-empty string.
C2_TitleSentinel ==
    pc # "parse" =>
        \A i \in 1..Len(papers) :
            "title" \in DOMAIN papers[i] /\ papers[i].title # <<>>

\* the label Title, a colon and nothing but blanks after it
LabelAndColonOnly(raw) == LowerStr(Strip(raw)) = <<"t","i","t","l","e",":">>

\* C3 (as claimed): a line made only of the label Title, a colon and
\* optional blanks opens no record: a text of such lines and blank lines,
\* such as "Title: \n", parses to no record.
C3_LabelOnlyOpensNoRecord ==
    (/\ pc # "parse"
     /\ \A i \in 1..Len(lines) :
            Strip(lines[i]) = <<>> \/ LabelAndColonOnly(lines[i]))
    => papers = <<>>

\* C4 (as claimed): the row of every record has the record's url when that
\* is non-empty and "N/A" when it is empty.
C4_UrlSentinel ==
    (pc = "done" /\ is_list) =>
        /\ Len(table) = Len(papers)
        /\ \A i \in 1..Len(table) :
               table[i].URL = (IF DictGet(papers[i], "url", <<>>) # <<>>
                               THEN papers[i].url ELSE NotAvailable)

ReportLabels ==
    {TitleLabel, AuthorsLabel, PublishedFieldLabel, SummaryLabel, PdfLinkLabel}

\* v neither starts nor ends with a colon, an asterisk or whitespace
EdgesTrimmed(v) ==
    \/ v = <<>>
    \/ /\ v[1] \notin {":", "*"} \cup Whitespace
       /\ v[Len(v)] \notin {":", "*"} \cup Whitespace

AllValuesTrimmed(ls) ==
    \A i \in 1..Len(ls) : \A label \in ReportLabels :
        StartsWith(ls[i], label) => EdgesTrimmed(Drop(ls[i], Len(label)))

\* C7 (as claimed): no value format_structured_paper_list writes after a
\* label starts or ends with a colon, an asterisk or whitespace.
C7_ReportValuesTrimmed ==
    (pc \in {"table", "done"} /\ is_list) => AllValuesTrimmed(Split(report))

\* the first field, in the order authors, published, summary, url, whose
\* pattern matches the stripped line
FirstField(line) ==
    IF authors_match(line).m THEN "authors"
    ELSE IF published_match(line).m THEN "published"
    ELSE IF summary_match(line).m THEN "summary"
    ELSE IF url_match(line).m THEN "url"
    ELSE "none"

\* the value the pattern of field f extracts from the stripped line
Extracted(line, f) ==
    CASE f = "authors" -> FieldValue(authors_match(line).g)
      [] f = "published" -> FieldValue(published_match(line).g)
      [] f = "summary" -> FieldValue(summary_match(line).g)
      [] f = "url" -> url_match(line).g

\* the dicts d and e have the same keys and values, except perhaps at f
SameExceptAt(d, e, f) ==
    \A k \in (DOMAIN d \cup DOMAIN e) \ {f} :
        k \in DOMAIN d /\ k \in DOMAIN e /\ d[k] = e[k]

\* e is d with only the field f of the stripped line set
OnlySets(d, e, line, f) ==
    /\ SameExceptAt(d, e, f)
    /\ IF f = "none" THEN e = d
       ELSE f \in DOMAIN e /\ e[f] = Extracted(line, f)

\* C8: a pass of the loop on a non-blank line that is no title line sets the
\* first field, in the order authors, published, summary, url, whose pattern
\* matches the line, and changes nothing else: no other field, not the
\* title, not the papers already appended.
C8_ExclusiveDispatch ==
    [][(/\ pc = "parse"
        /\ idx <= Len(lines)
        /\ idx' = idx + 1
        /\ Strip(lines[idx]) # <<>>
        /\ ~TitleMatch(Strip(lines[idx])).m)
       => /\ OnlySets(current_paper, current_paper', Strip(lines[idx]),
                      FirstField(Strip(lines[idx])))
          /\ papers' = papers]_vars

\* C8's case: the line just read matches the authors and the summary
\* pattern, a record was open, and only its authors were set
C8_Witness ==
    /\ pc = "parse"
    /\ idx > 1
    /\ ~IsTitleLine(lines[idx - 1])
    /\ authors_match(Strip(lines[idx - 1])).m
    /\ summary_match(Strip(lines[idx - 1])).m
    /\ "title" \in DOMAIN current_paper
    /\ current_paper.authors = FieldValue(authors_match(Strip(lines[idx - 1])).g)
    /\ current_paper.authors # <<>>
    /\ current_paper.summary = <<>>

\* the index of the first title line after line t of ls, Len(ls) + 1 when
\* there is none
NextTitle(ls, t) ==
    IF \E j \in TitleLineIndexes(ls) : j > t
    THEN CHOOSE j \in TitleLineIndexes(ls) :
             j > t /\ \A k \in TitleLineIndexes(ls) : k > t => j <= k
    ELSE Len(ls) + 1

\* the lines dispatched to field f after title line t and before the next
DispatchedTo(ls, t, f) ==
    {j \in (t + 1)..(NextTitle(ls, t) - 1) :
        Strip(ls[j]) # <<>> /\ FirstField(Strip(ls[j])) = f}

\* the value of field f of the record title line t opens
LastValue(ls, t, f) ==
    IF DispatchedTo(ls, t, f) = {} THEN <<>>
    ELSE Extracted(Strip(ls[CHOOSE j \in DispatchedTo(ls, t, f) :
                                \A k \in DispatchedTo(ls, t, f) : k <= j]), f)

RecordOf(ls, t) ==
    [title |-> TitleValue(TitleMatch(Strip(ls[t])).g),
     categories |-> <<>>,
     url |-> LastValue(ls, t, "url"),
     summary |-> LastValue(ls, t, "summary"),
     authors |-> LastValue(ls, t, "authors"),
     published |-> LastValue(ls, t, "published")]

\* the n-th smallest element of a set of numbers
NthOf(S, n) == CHOOSE i \in S : Cardinality({j \in S : j <= i}) = n

\* C9 (as claimed): the records returned are those of the title lines, in
\* their order; each field of a record is the value of the last line
\* dispatched to it between the record's title line and the next one, and
\* empty when there is none.
C9_FieldAttribution ==
    pc # "parse" =>
        /\ Len(papers) = Cardinality(TitleLineIndexes(lines))
        /\ \A n \in 1..Len(papers) :
               n <= Cardinality(TitleLineIndexes(lines)) =>
                   papers[n] = RecordOf(lines, NthOf(TitleLineIndexes(lines), n))

\* C10: is_paper_list_response(text) is true exactly when parse_paper_data
\* returns at least 2 records.
C10_ClassifierEquivalence ==
    pc \in {"format", "table", "done"} => (is_list <=> Len(papers) >= 2)

\* C10's case: two numbered lines, which the parser takes for title lines
C10_Witness ==
    /\ pc = "done"
    /\ is_list
    /\ Len(numbered_lines(text)) >= 2
    /\ Len(papers) >= 2

\* t has one of the structural markers of line 36
HasMarker(t) == \E marker \in Markers : Contains(t, marker)

\* a stripped line that starts with a single asterisk, not a double one
SingleAsterisk(line) ==
    StartsWith(line, <<"*">>) /\ ~StartsWith(line, <<"*", "*">>)

\* a stripped line wrapped in double asterisks
Wrapped(line) ==
    StartsWith(line, <<"*", "*">>) /\ EndsWith(line, <<"*", "*">>)

\* os are the lines ls with every single-asterisk line made a hyphen bullet
\* and every wrapped line made a level-3 heading
BulletsAndHeadings(ls, os) ==
    /\ Len(os) = Len(ls)
    /\ \A i \in 1..Len(ls) :
           /\ SingleAsterisk(Strip(ls[i])) =>
                  os[i] = <<"-", " ">> \o Strip(Drop(Strip(ls[i]), 1))
           /\ Wrapped(Strip(ls[i])) =>
                  os[i] = <<"#", "#", "#", " ">> \o Strip(ls[i])

\* C5 (as claimed): a text with any of the structural markers has its
\* single-asterisk lines made hyphen bullets and its wrapped lines made
\* headings, whichever marker it has.
C5_AnyMarkerReformats ==
    (Len(outs) >= 1 /\ HasMarker(Unescape(text))) =>
        BulletsAndHeadings(Split(Unescape(text)), Split(outs[1]))

\* C5 (amended): a text that contains a double asterisk has its
\* single-asterisk lines made hyphen bullets and its wrapped lines made
\* headings.
C5_DoubleAsteriskReformats ==
    (Len(outs) >= 1 /\ Contains(Unescape(text), <<"*", "*">>)) =>
        BulletsAndHeadings(Split(Unescape(text)), Split(outs[1]))

\* C5's case: a text with a double asterisk, a wrapped line and a
\* single-asterisk line with something after the asterisk has been cleaned
C5_Witness ==
    /\ Len(outs) >= 1
    /\ Contains(Unescape(text), <<"*", "*">>)
    /\ \E i \in 1..Len(Split(Unescape(text))) :
           Wrapped(Strip(Split(Unescape(text))[i]))
    /\ \E i \in 1..Len(Split(Unescape(text))) :
           /\ SingleAsterisk(Strip(Split(Unescape(text))[i]))
           /\ Len(Split(outs[1])[i]) > 2

\* C6 (as claimed): cleaning what the cleaner returned changes nothing.
C6_Idempotent == Len(outs) >= 2 => outs[2] = outs[1]

\* no backslash stands right before an escaped double quote
NoNestedEscape(t) == ~Contains(t, <<BS, BS, QT>>)

\* no line is an asterisk alone
NoLoneAsterisk(t) ==
    \A i \in 1..Len(Split(t)) : Strip(Split(t)[i]) # <<"*">>

\* C6 (amended): cleaning what the cleaner returned changes nothing, for a
\* text in which no backslash stands right before an escaped double quote
\* and which, unescaped, has no line that is an asterisk alone.
C6_IdempotentOnce ==
    (/\ Len(outs) >= 2
     /\ NoNestedEscape(text)
     /\ NoLoneAsterisk(Unescape(text)))
    => outs[2] = outs[1]

\* C6's case: the first pass unescaped and reformatted the text into
\* bullets and headings, and a second pass has run
C6_Witness ==
    /\ Len(outs) >= 2
    /\ NoNestedEscape(text)
    /\ NoLoneAsterisk(Unescape(text))
    /\ Unescape(text) # text
    /\ outs[1] # Unescape(text)
    /\ Contains(outs[1], <<"-", " ">>)
    /\ Contains(outs[1], <<"#", "#", "#", " ">>)

=============================================================================
